---- MODULE Spec2Model ----
(***************************************************************************)
(* hello-tts (Python): the batch runners hello_multilingual.py and         *)
(* multilingual_demo.py, the HelloTTS facade with the hello_tts CLI, and   *)
(* the Edge and Google backend clients.                                    *)
(*                                                                         *)
(* Python values: None is NoneVal, a str whose content is inspected (a     *)
(* language code) is a sequence of one-character strings, any other str is *)
(* a TLA+ string.  External collaborators (the synthesis providers, the    *)
(* file system, the audio player, the import system) answer with one of    *)
(* the outcomes their call sites can observe, chosen with \E.              *)
(***************************************************************************)
EXTENDS Integers, Sequences, FiniteSets, TLC

\* ---------------------------------------------------------------- bounds
\* Longest list of language entries in the shared config file.
MaxLangs == 2

\* ---------------------------------------------------------------- values
NoneVal == "None"

\* The code of an entry that has none (key missing or JSON null).
NoCode == <<"None">>
EmptyCode == << >>
ZhCn == <<"z", "h", "-", "c", "n">>

\* `is not None` where truthiness is meant.
TruthyNotNone(s) == s # NoneVal

\* Python truthiness of an optional str.
Truthy(s) == s # NoneVal /\ s # ""

\* Python truthiness of an optional language code.
TruthyCode(c) == c # NoCode /\ c # EmptyCode

Runners == {"hello_multilingual", "multilingual_demo"}

\* TTS_BACKEND and --backend: unset, or one of the two backend names.
BackendChoices == {NoneVal, "edge", "google"}

\* Entries of the "languages" array of ../shared/tts_config.json.
Codes == {NoCode, EmptyCode, ZhCn}
AltVoices == {NoneVal, "", "alt"}
Entries == [code : Codes, alt_voice : AltVoices]

\* What the config file holds: nothing, text that is no JSON, JSON whose top
\* level is no object, or an object with a "languages" list.
ConfigKinds == {"missing", "malformed", "notobject", "ok"}

SeqsUpTo(S, n) == UNION {[1..k -> S] : k \in 0..n}

\* ------------------------------------------------------------- strings
\* A str whose characters the code inspects is a sequence of characters.
Dash == "-"

\* str.split('-').
RECURSIVE SplitDash(_)
SplitDash(s) ==
    IF \A n \in DOMAIN s : s[n] # Dash
    THEN <<s>>
    ELSE LET k == CHOOSE n \in DOMAIN s :
                      s[n] = Dash /\ \A m \in 1..(n - 1) : s[m] # Dash
         IN  <<SubSeq(s, 1, k - 1)>> \o SplitDash(SubSeq(s, k + 1, Len(s)))

\* str.lower() on the letters that occur.
LowerChar(c) ==
    CASE c = "C" -> "c" [] c = "N" -> "n" [] c = "U" -> "u" [] c = "S" -> "s"
      [] c = "X" -> "x" [] c = "Y" -> "y" [] c = "F" -> "f" [] c = "R" -> "r"
      [] c = "E" -> "e"
      [] OTHER -> c

Lower(s) == [n \in DOMAIN s |-> LowerChar(s[n])]

\* str.strip() of surrounding blanks.
RECURSIVE Strip(_)
Strip(s) ==
    IF s = << >> THEN s
    ELSE IF Head(s) = " " THEN Strip(Tail(s))
    ELSE IF s[Len(s)] = " " THEN Strip(SubSeq(s, 1, Len(s) - 1))
    ELSE s

\* str.startswith.
StartsWith(s, prefix) ==
    Len(prefix) <= Len(s) /\ SubSeq(s, 1, Len(prefix)) = prefix

StrEn == <<"e", "n">>
StrEnUpper == <<"E", "N">>
StrEnPadded == <<" ", "e", "n">>
StrFr == <<"f", "r">>
StrZhCN == <<"z", "h", "-", "C", "N">>
StrZhCnLower == <<"z", "h", "-", "c", "n">>
StrEnUS == <<"e", "n", "-", "U", "S">>
StrFrFR == <<"f", "r", "-", "F", "R">>
\* Voice names.
JennyNeural ==
    <<"e", "n", "-", "U", "S", "-", "J", "e", "n", "n", "y", "N", "e", "u", "r", "a", "l">>
DeniseNeural ==
    <<"f", "r", "-", "F", "R", "-", "D", "e", "n", "i", "s", "e", "N", "e", "u", "r", "a", "l">>
AriaNeural ==
    <<"e", "n", "-", "U", "S", "-", "A", "r", "i", "a", "N", "e", "u", "r", "a", "l">>
XiaoxiaoNeural ==
    <<"z", "h", "-", "C", "N", "-", "X", "i", "a", "o", "x", "i", "a", "o", "N", "e", "u", "r", "a", "l">>
ZhStandardA ==
    <<"z", "h", "-", "C", "N", "-", "S", "t", "a", "n", "d", "a", "r", "d", "-", "A">>
StrXxYY ==
    <<"x", "x", "-", "Y", "Y">>
StandardSuffix == <<"-", "S", "t", "a", "n", "d", "a", "r", "d">>

VARIABLES
    \* the environment of one run
    runner,              \* which script runs
    env_backend,         \* os.environ.get('TTS_BACKEND')
    arg_backend,         \* the value after --backend in sys.argv
    edge_importable,     \* backends.edge.tts_client imports (edge_tts, aiofiles installed)
    config_kind,         \* state of ../shared/tts_config.json
    legacy_kind,         \* state of the per-backend file ../shared/*_tts_voices.json
    languages_data,      \* the list ("languages", or "voices") of the file that is opened
    play_audio,          \* generate_audio_for_language's play_audio argument
    interrupted,         \* a KeyboardInterrupt was delivered to the process
    \* main()
    pc,                  \* position of the thread of control
    backend,             \* main's local `backend`
    languages,           \* the loaded list
    client,              \* the client main constructed: its backend module
    i,                   \* 0-based index of the language being processed
    successful_count,
    failed_count,
    ret,                 \* main's return value, -1 while it has none
    exit_status,         \* the process's exit status, -1 while it runs
    sleeps,              \* asyncio.sleep(2) calls made
    processed,           \* indices handed to generate_audio_for_language
    \* generate_audio_for_language()
    language_config,     \* its argument
    voice,
    alt_voice,
    tts_error,           \* the TTSError class its inner except names
    synth_calls,         \* synthesize_text calls made for this language
    audio_data,
    used_voice,
    saved,               \* save_audio calls that wrote a file
    play_calls,          \* playback attempts
    success,             \* its return value
    \* HelloTTS (tts.py) and its callers
    caller,              \* "hello_tts" (the CLI's main) or "library" (any other caller)
    gtts_available,      \* GTTS_AVAILABLE of backends.google.tts_client
    arg_backend_name,    \* --backend / the `backend` argument of HelloTTS
    arg_voice,           \* --voice / the `voice` argument of synthesize_text
    no_play,             \* --no-play
    list_voices_flag,    \* --list-voices
    config,              \* the TTSConfig
    fpc,                 \* position of the caller
    backend_name,        \* self.backend_name
    facade_client,       \* self._client: the module of its class
    passed_voice,        \* the voice the backend client received
    backend_audio,       \* the bytes the backend client returned
    audio,               \* the bytes synthesize_text returned
    raised,              \* the exception that left the last facade call
    output_file,         \* what the output file holds
    playbacks,           \* playback attempts of the CLI
    cli_exit,            \* the CLI's exit status, -1 while it runs
    \* one backend client (backends/*/tts_client.py)
    client_kind,         \* its module: "edge" or "google"
    voices_cache,        \* self._voices_cache
    config_file,         \* what shared/tts_config.json holds now
    provider,            \* what the provider's voice listing answers now
    calls,               \* list_voices calls made
    file_reads,          \* times the config file was parsed
    provider_queries,    \* times the provider was asked for its voices
    last_op,             \* the last operation called on the client
    result,              \* what it returned
    error,               \* what it raised
    requested,           \* the voice of the last synthesize_text call
    synth_audio,         \* the bytes it returned
    provider_answer,     \* what the provider did with it
    save_data,           \* the bytes given to the last save_audio
    disk,                \* what the file save_audio is pointed at holds
    language,            \* the `language` argument of the last language filter
    filtered,            \* what the last language filter returned
    available_langs,     \* what tts_langs() answered in the last _extract_lang
    lang                 \* synthesize_text's local `lang` (Google client)

\* The environment of a batch run: nothing in the scripts changes it.
env_vars == <<runner, env_backend, arg_backend, edge_importable, config_kind,
              legacy_kind, languages_data, play_audio, interrupted>>

batch_vars == <<env_vars, pc, backend, languages, client, i,
                successful_count, failed_count, ret, exit_status, sleeps, processed>>

gen_vars == <<language_config, voice, alt_voice, tts_error, synth_calls, audio_data,
              used_voice, saved, play_calls, success>>

batch_vars_but_pc == <<env_vars, backend, languages, client, i,
                       successful_count, failed_count, ret, exit_status, sleeps,
                       processed>>

facade_vars == <<caller, gtts_available, arg_backend_name, arg_voice, no_play,
                 list_voices_flag, config, fpc, backend_name, facade_client,
                 passed_voice, backend_audio, audio, raised, output_file, playbacks,
                 cli_exit>>

client_vars == <<client_kind, voices_cache, config_file, provider, calls, file_reads,
                 provider_queries, last_op, result, error, requested,
                 synth_audio, provider_answer, save_data, disk, language, filtered,
                 available_langs, lang>>

\* What the batch scripts leave alone.
beyond_batch == <<facade_vars, client_vars>>

vars == <<batch_vars, gen_vars, facade_vars, client_vars>>

\* ------------------------------------------------------- backend selection
\* A selection that lets the --backend argument win over TTS_BACKEND.
ResolveBackendFlagFirst(env, arg) ==
    IF Truthy(arg) THEN arg
    ELSE IF Truthy(env) THEN env
    ELSE "edge"

\* `backend = os.environ.get('TTS_BACKEND')`, else the --backend argument, else 'edge'.
ResolveBackend(env, arg) ==
    IF Truthy(env) THEN env
    ELSE IF Truthy(arg) THEN arg
    ELSE "edge"

\* get_tts_client_and_error: the module whose TTSClient and TTSError are used.
BackendModule(b) == IF b = "google" THEN "google" ELSE "edge"

\* `os.environ.get('TTS_BACKEND', 'edge')` as multilingual_demo's
\* generate_audio_for_language reads it (an empty value stays empty).
GenEnvBackend(env) == IF env = NoneVal THEN "edge" ELSE env

TTSErrorOf(module) == IF module = "google" THEN "TTSError_google" ELSE "TTSError_edge"


\* from_dict picks data[f'{backend}_voice']; multilingual_demo picks google_voice
\* when the backend it reads is 'google' and edge_voice otherwise.
PrimaryVoice(b) == IF b = "google" THEN "google_voice" ELSE "edge_voice"

\* The bytes a synthesis with voice v produced.
Audio(v) == <<"audio", v>>
NoAudio == << >>

\* What client.synthesize_text can do at its call site: return bytes, raise its
\* module's TTSError, or (Edge client only, whose provider calls are not wrapped)
\* raise whatever the provider library raised.
SynthOutcomes(c) ==
    IF c = "google" THEN {"audio", "TTSError_google"}
    ELSE {"audio", "TTSError_edge", "Exception"}

\* `except cls` catches an exception of class `kind`.
Catches(cls, kind) == cls = "Exception" \/ cls = kind

\* ------------------------------------------------------------ config load
\* load_language_config of hello_multilingual.py: the entries with a truthy code,
\* [] on any failure.
LoadHM(kind, data) ==
    IF kind = "ok" THEN SelectSeq(data, LAMBDA e : TruthyCode(e.code)) ELSE << >>

\* load_language_config of multilingual_demo.py keeps every entry.
LoadMD(kind, data) == IF kind = "ok" THEN data ELSE << >>

\* The state of the file load_language_config opens.  multilingual_demo.py opens
\* the per-backend file when tts_config.json does not exist (the scripts are run
\* from their own directory, which their relative paths assume).
OpenedKind(r, unified, legacy) ==
    IF r = "multilingual_demo" /\ unified = "missing" THEN legacy ELSE unified

\* ------------------------------------------- generate_audio_for_language
\* The outer `except Exception`: log and return False.
GenFail ==
    /\ success' = FALSE
    /\ pc' = "gen_return"

GenSucceed ==
    /\ success' = TRUE
    /\ pc' = "gen_return"

\* The statements before the outer try.
GenEnter ==
    /\ pc = "gen_enter"
    /\ synth_calls' = << >>
    /\ audio_data' = NoAudio
    /\ success' = FALSE
    /\ UNCHANGED <<batch_vars_but_pc, language_config, saved, play_calls>>
    /\ IF runner = "hello_multilingual"
       THEN /\ voice' = PrimaryVoice(backend)
            /\ alt_voice' = language_config.alt_voice
            /\ used_voice' = PrimaryVoice(backend)
            /\ tts_error' = "Exception"
            /\ pc' = "synth_primary"
       ELSE IF \/ language_config.code = NoCode
               \/ /\ BackendModule(GenEnvBackend(env_backend)) = "edge"
                  /\ ~edge_importable
            THEN \* lang_code.upper() on None, or the import of the module
                 \* TTS_BACKEND names: raised outside the try
                 /\ pc' = "gen_raised"
                 /\ UNCHANGED <<voice, alt_voice, used_voice, tts_error>>
            ELSE /\ voice' = PrimaryVoice(GenEnvBackend(env_backend))
                 /\ alt_voice' = language_config.alt_voice
                 /\ used_voice' = PrimaryVoice(GenEnvBackend(env_backend))
                 /\ tts_error' = TTSErrorOf(BackendModule(GenEnvBackend(env_backend)))
                 /\ pc' = "synth_primary"
    /\ UNCHANGED beyond_batch

\* synthesize(text, voice) and the handler of its failure.
SynthPrimary ==
    /\ pc = "synth_primary"
    /\ \E o \in SynthOutcomes(client) :
        /\ synth_calls' = Append(synth_calls, [voice |-> voice, outcome |-> o])
        /\ IF o = "audio"
           THEN /\ audio_data' = Audio(voice)
                /\ pc' = "save"
                /\ UNCHANGED success
           ELSE /\ UNCHANGED audio_data
                /\ IF Catches(tts_error, o) /\ Truthy(alt_voice)
                   THEN pc' = "synth_alt" /\ UNCHANGED success
                   ELSE GenFail
    /\ UNCHANGED <<batch_vars_but_pc, language_config, voice, alt_voice, tts_error,
                   used_voice, saved, play_calls>>
    /\ UNCHANGED beyond_batch

\* A retry whose failure is swallowed: the call goes on to save.
SynthAltIgnoringFailure ==
    /\ pc = "synth_alt"
    /\ \E o \in SynthOutcomes(client) :
        /\ synth_calls' = Append(synth_calls, [voice |-> alt_voice, outcome |-> o])
        /\ audio_data' = IF o = "audio" THEN Audio(alt_voice) ELSE audio_data
        /\ used_voice' = alt_voice
        /\ pc' = "save"
        /\ UNCHANGED success
    /\ UNCHANGED <<batch_vars_but_pc, language_config, voice, alt_voice, tts_error,
                   saved, play_calls>>
    /\ UNCHANGED beyond_batch

\* synthesize(text, alt_voice) in the handler.
SynthAlt ==
    /\ pc = "synth_alt"
    /\ \E o \in SynthOutcomes(client) :
        /\ synth_calls' = Append(synth_calls, [voice |-> alt_voice, outcome |-> o])
        /\ IF o = "audio"
           THEN /\ audio_data' = Audio(alt_voice)
                /\ used_voice' = alt_voice
                /\ pc' = "save"
                /\ UNCHANGED success
           ELSE /\ UNCHANGED <<audio_data, used_voice>>
                /\ GenFail
    /\ UNCHANGED <<batch_vars_but_pc, language_config, voice, alt_voice, tts_error,
                   saved, play_calls>>
    /\ UNCHANGED beyond_batch

\* time.time() when the run starts, and the seconds one asyncio.sleep takes.
StartTime == 1700000000
SleepSeconds == 2

\* int(time.time()): the clock advances while main sleeps.
Timestamp(slept) == StartTime + SleepSeconds * slept

\* hello_multilingual: `'gtts' if backend == 'google' else backend`.
BackendNameHM(b) == IF b = "google" THEN "gtts" ELSE b

\* f"{lang_prefix}_python_{backend_name}_{timestamp}.mp3", its pieces in order.
Filename(lang_prefix, tag, timestamp) ==
    <<lang_prefix, "_python_", tag, "_", timestamp, ".mp3">>

\* The filename either script builds for the language it is processing:
\* hello_multilingual tags it with its `backend` argument, multilingual_demo
\* with TTS_BACKEND as it reads it itself.
GenFilename ==
    Filename(SplitDash(language_config.code)[1],
             IF runner = "hello_multilingual" THEN BackendNameHM(backend)
             ELSE GenEnvBackend(env_backend),
             Timestamp(sleeps))

\* A save inside the inner try: its failure is handled like a synthesis
\* failure and triggers the retry with the alternative voice.
SaveAudioInsideRetry ==
    /\ pc = "save"
    /\ \E o \in {"ok", "error"} :
        IF o = "ok"
        THEN /\ saved' = Append(saved, [index |-> i, code |-> language_config.code,
                                        voice |-> used_voice, audio |-> audio_data,
                                        filename |-> GenFilename])
             /\ IF play_audio
                THEN pc' = "play" /\ UNCHANGED success
                ELSE GenSucceed
        ELSE /\ UNCHANGED saved
             /\ IF Truthy(alt_voice) /\ used_voice # alt_voice
                THEN pc' = "synth_alt" /\ UNCHANGED success
                ELSE GenFail
    /\ UNCHANGED <<batch_vars_but_pc, language_config, voice, alt_voice, tts_error,
                   synth_calls, audio_data, used_voice, play_calls>>
    /\ UNCHANGED beyond_batch

\* The filename is built and client.save_audio writes it, or raises.
SaveAudio ==
    /\ pc = "save"
    /\ \E o \in {"ok", "error"} :
        IF o = "ok"
        THEN /\ saved' = Append(saved, [index |-> i, code |-> language_config.code,
                                        voice |-> used_voice, audio |-> audio_data,
                                        filename |-> GenFilename])
             /\ IF play_audio
                THEN pc' = "play" /\ UNCHANGED success
                ELSE GenSucceed
        ELSE /\ UNCHANGED saved
             /\ GenFail
    /\ UNCHANGED <<batch_vars_but_pc, language_config, voice, alt_voice, tts_error,
                   synth_calls, audio_data, used_voice, play_calls>>
    /\ UNCHANGED beyond_batch

\* AudioPlayer() and play_file: they finish, raise AudioError (no playback
\* method, file not found), or the player raises something else
\* (subprocess.CalledProcessError from check=True, a pygame or playsound error).
PlayOutcomes == {"ok", "AudioError", "OtherError"}

PlayAudio ==
    /\ pc = "play"
    /\ \E o \in PlayOutcomes :
        /\ play_calls' = Append(play_calls, o)
        /\ IF o = "OtherError" THEN GenFail ELSE GenSucceed
    /\ UNCHANGED <<batch_vars_but_pc, language_config, voice, alt_voice, tts_error,
                   synth_calls, audio_data, used_voice, saved>>
    /\ UNCHANGED beyond_batch

\* ------------------------------------------------------------------ main
\* main() has returned v.
Return(v) ==
    /\ ret' = v
    /\ pc' = "returned"

\* MainStart without the check for an empty list: only a failed load returns 1.
MainStartNoEmptyCheck ==
    /\ pc = "start"
    /\ backend' = IF runner = "hello_multilingual"
                  THEN ResolveBackend(env_backend, arg_backend) ELSE backend
    /\ languages' = IF runner = "hello_multilingual"
                    THEN LoadHM(config_kind, languages_data)
                    ELSE LoadMD(OpenedKind(runner, config_kind, legacy_kind),
                                languages_data)
    /\ IF OpenedKind(runner, config_kind, legacy_kind) = "ok"
       THEN pc' = "mkdir" /\ UNCHANGED ret
       ELSE Return(1)
    /\ UNCHANGED <<env_vars, client, i, successful_count,
                   failed_count, exit_status, sleeps, processed, gen_vars>>
    /\ UNCHANGED beyond_batch

\* Backend choice (hello_multilingual only, here), load_language_config and the
\* checks of its result.
MainStart ==
    /\ pc = "start"
    /\ IF runner = "hello_multilingual"
       THEN /\ backend' = ResolveBackend(env_backend, arg_backend)
            /\ languages' = LoadHM(config_kind, languages_data)
            /\ IF languages' = << >>
               THEN Return(1)
               ELSE pc' = "mkdir" /\ UNCHANGED ret
       ELSE /\ UNCHANGED backend
            /\ languages' = LoadMD(OpenedKind(runner, config_kind, legacy_kind),
                                   languages_data)
            /\ IF OpenedKind(runner, config_kind, legacy_kind) = "notobject"
               THEN \* only FileNotFoundError and JSONDecodeError are caught
                    pc' = "raised" /\ UNCHANGED ret
               ELSE IF languages' = << >>
                    THEN Return(1)
                    ELSE pc' = "mkdir" /\ UNCHANGED ret
    /\ UNCHANGED <<env_vars, client, i, successful_count,
                   failed_count, exit_status, sleeps, processed, gen_vars>>
    /\ UNCHANGED beyond_batch

\* create_output_directory("output"): mkdir, outside any try.
CreateOutputDirectory ==
    /\ pc = "mkdir"
    /\ \E o \in {"ok", "error"} :
        pc' = IF o = "ok" THEN "init_client" ELSE "raised"
    /\ UNCHANGED <<batch_vars_but_pc, gen_vars>>
    /\ UNCHANGED beyond_batch

\* get_tts_client_and_error(backend) and TTSClient(): the Edge module may fail to
\* import, the Google constructor raises TTSError without gTTS.
InitClient ==
    /\ pc = "init_client"
    /\ backend' = IF runner = "hello_multilingual" THEN backend
                  ELSE ResolveBackend(env_backend, arg_backend)
    /\ IF BackendModule(backend') = "edge"
       THEN IF edge_importable
            THEN client' = "edge" /\ pc' = "loop" /\ UNCHANGED ret
            ELSE /\ UNCHANGED client
                 /\ IF runner = "hello_multilingual"
                    THEN Return(1)
                    ELSE \* the import is outside the try
                         pc' = "raised" /\ UNCHANGED ret
       ELSE \E gtts_installed \in BOOLEAN :
            IF gtts_installed
            THEN client' = "google" /\ pc' = "loop" /\ UNCHANGED ret
            ELSE UNCHANGED client /\ Return(1)
    /\ UNCHANGED <<env_vars, languages, i, successful_count,
                   failed_count, exit_status, sleeps, processed, gen_vars>>
    /\ UNCHANGED beyond_batch

\* A summary that reports success as soon as one language succeeded.
ExitCodeAnySuccess(failed, successful) == IF successful > 0 THEN 0 ELSE 1

\* `return 0 if failed_count == 0 else 1`
ExitCode(failed, successful) == IF failed = 0 THEN 0 ELSE 1

\* The head of `for i, language_config in enumerate(languages)` with the call of
\* generate_audio_for_language, and the summary after the last language.
LoopNext ==
    /\ pc = "loop"
    /\ IF i < Len(languages)
       THEN /\ language_config' = languages[i + 1]
            /\ processed' = Append(processed, i)
            /\ pc' = "gen_enter"
            /\ UNCHANGED ret
       ELSE /\ Return(ExitCode(failed_count, successful_count))
            /\ UNCHANGED <<language_config, processed>>
    /\ UNCHANGED <<env_vars, backend, languages, client, i,
                   successful_count, failed_count, exit_status, sleeps,
                   voice, alt_voice, tts_error, synth_calls, audio_data, used_voice,
                   saved, play_calls, success>>
    /\ UNCHANGED beyond_batch

\* The counters after generate_audio_for_language has returned.
MainCount ==
    /\ pc = "gen_return"
    /\ IF success
       THEN successful_count' = successful_count + 1 /\ UNCHANGED failed_count
       ELSE failed_count' = failed_count + 1 /\ UNCHANGED successful_count
    /\ IF i < Len(languages) - 1
       THEN pc' = "sleep" /\ UNCHANGED i
       ELSE pc' = "loop" /\ i' = i + 1
    /\ UNCHANGED <<env_vars, backend, languages, client, ret,
                   exit_status, sleeps, processed, gen_vars>>
    /\ UNCHANGED beyond_batch

\* await asyncio.sleep(2) between two languages.
Sleep ==
    /\ pc = "sleep"
    /\ sleeps' = sleeps + 1
    /\ i' = i + 1
    /\ pc' = "loop"
    /\ UNCHANGED <<env_vars, backend, languages, client,
                   successful_count, failed_count, ret, exit_status, processed,
                   gen_vars>>
    /\ UNCHANGED beyond_batch

\* An exception that left generate_audio_for_language leaves main's loop and
\* main: nothing in main catches it.
MainPropagate ==
    /\ pc = "gen_raised"
    /\ pc' = "raised"
    /\ UNCHANGED <<batch_vars_but_pc, gen_vars>>
    /\ UNCHANGED beyond_batch

\* Where the thread of control is while a script runs.
RunningPcs ==
    {"start", "mkdir", "init_client", "loop", "gen_enter", "synth_primary",
     "synth_alt", "save", "gen_return", "sleep", "gen_raised", "returned", "raised"}

\* The Google client's synthesize_text starts with _extract_lang, whose bare
\* `except:` around tts_langs() catches every BaseException.
InBareExcept == pc \in {"synth_primary", "synth_alt"} /\ client = "google"

\* The user's Ctrl-C: KeyboardInterrupt is raised at the statement that runs.
\* No `except Exception` of the scripts or clients catches it; it unwinds main
\* and asyncio.run to the __main__ block, unless it is raised inside
\* _extract_lang's try, where it is swallowed and the call goes on.
Interrupt ==
    /\ ~interrupted
    /\ pc \in RunningPcs
    /\ interrupted' = TRUE
    /\ \E swallowed \in IF InBareExcept THEN BOOLEAN ELSE {FALSE} :
        pc' = IF swallowed THEN pc ELSE "interrupted"
    /\ UNCHANGED <<runner, env_backend, arg_backend, edge_importable, config_kind,
                   legacy_kind, languages_data, play_audio>>
    /\ UNCHANGED <<backend, languages, client, i, successful_count, failed_count,
                   ret, exit_status, sleeps, processed, gen_vars>>
    /\ UNCHANGED beyond_batch

\* The __main__ block: sys.exit(main's value), or 1 on KeyboardInterrupt or
\* another exception.
ProcessExit ==
    /\ pc \in {"returned", "raised", "interrupted"}
    /\ exit_status' = IF pc = "returned" THEN ret ELSE 1
    /\ pc' = "exited"
    /\ UNCHANGED <<env_vars, backend, languages, client, i,
                   successful_count, failed_count, ret, sleeps, processed, gen_vars>>
    /\ UNCHANGED beyond_batch

\* ------------------------------------------------------- TTSConfig
\* The defaults of the dataclass.
DefaultConfig ==
    [default_voice |-> "en-US-JennyNeural", google_default_voice |-> "en",
     auto_play |-> TRUE]

\* Configs a caller of HelloTTS may pass.
Configs ==
    [default_voice : {"en-US-JennyNeural", "zh-CN-XiaoxiaoNeural"},
     google_default_voice : {"en", "zh"},
     auto_play : {TRUE}]

\* `None` where a list of Voice is expected.
NoVoices == <<[name |-> <<NoneVal>>, locale |-> <<NoneVal>>]>>

\* ----------------------------------------------------------- HelloTTS
\* `from backends.google.tts_client import TTSClient` cannot raise ImportError:
\* the module catches the ImportError of gtts itself and sets GTTS_AVAILABLE.
GoogleClassImported == TRUE

\* The backend __init__ settles on: the named one, else Edge if its class was
\* imported, else Google if its class was imported, else none.
SelectBackend(name, EdgeClient, GoogleClient) ==
    IF name # NoneVal THEN name
    ELSE IF EdgeClient THEN "edge"
    ELSE IF GoogleClient THEN "google"
    ELSE NoneVal

\* A voice resolution that forgets the Google default.
ResolveVoiceEdgeDefault(v, name, cfg) ==
    IF v = NoneVal THEN cfg.default_voice ELSE v

\* synthesize_text's `if voice is None` block.
ResolveVoice(v, name, cfg) ==
    IF v # NoneVal THEN v
    ELSE IF name = "edge" THEN cfg.default_voice
    ELSE IF name = "google" THEN cfg.google_default_voice
    ELSE cfg.default_voice

\* An exception leaves a facade call: hello_tts.main logs it and calls
\* sys.exit(1), any other caller sees it.
FacadeFail(e) ==
    /\ raised' = e
    /\ IF caller = "hello_tts"
       THEN fpc' = "exited" /\ cli_exit' = 1
       ELSE fpc' = "raised" /\ UNCHANGED cli_exit

\* The caller is through: hello_tts.main returns and the process exits 0.
FacadeDone ==
    IF caller = "hello_tts"
    THEN fpc' = "exited" /\ cli_exit' = 0
    ELSE fpc' = "done" /\ UNCHANGED cli_exit

\* HelloTTS.__init__.
Construct ==
    /\ fpc = "construct"
    /\ LET EdgeClient == edge_importable
           GoogleClient == GoogleClassImported
           b == SelectBackend(arg_backend_name, EdgeClient, GoogleClient)
       IN  IF b = NoneVal
           THEN /\ FacadeFail("RuntimeError")
                /\ UNCHANGED <<backend_name, facade_client>>
           ELSE /\ backend_name' = b
                /\ IF b = "edge" /\ EdgeClient
                   THEN /\ facade_client' = "edge"
                        /\ fpc' = IF caller = "hello_tts" /\ list_voices_flag
                                  THEN "list" ELSE "synth"
                        /\ UNCHANGED <<raised, cli_exit>>
                   ELSE IF b = "google" /\ GoogleClient
                   THEN IF gtts_available
                        THEN /\ facade_client' = "google"
                             /\ fpc' = IF caller = "hello_tts" /\ list_voices_flag
                                       THEN "list" ELSE "synth"
                             /\ UNCHANGED <<raised, cli_exit>>
                        ELSE \* GoogleClient(config) raises its TTSError
                             /\ FacadeFail("TTSError_google")
                             /\ UNCHANGED facade_client
                   ELSE /\ FacadeFail("RuntimeError")
                        /\ UNCHANGED facade_client
    /\ UNCHANGED <<caller, gtts_available, arg_backend_name, arg_voice, no_play,
                   list_voices_flag, config, passed_voice, backend_audio, audio,
                   output_file, playbacks>>
    /\ UNCHANGED <<batch_vars, gen_vars, client_vars>>

\* hello_tts --list-voices: tts.list_voices(), print, return.
FacadeListVoices ==
    /\ fpc = "list"
    /\ \E o \in {"ok", "error"} :
        IF o = "ok"
        THEN FacadeDone /\ UNCHANGED raised
        ELSE FacadeFail(IF facade_client = "google" THEN "TTSError_google"
                        ELSE "Exception")
    /\ UNCHANGED <<caller, gtts_available, arg_backend_name, arg_voice, no_play,
                   list_voices_flag, config, backend_name, facade_client,
                   passed_voice, backend_audio, audio, output_file, playbacks>>
    /\ UNCHANGED <<batch_vars, gen_vars, client_vars>>

\* HelloTTS.synthesize_text: the voice is resolved, the client is called (through
\* asyncio.run for Edge) and its result returned.
FacadeSynthesize ==
    /\ fpc = "synth"
    /\ passed_voice' = ResolveVoice(arg_voice, backend_name, config)
    /\ \E o \in SynthOutcomes(facade_client) :
        IF o = "audio"
        THEN /\ backend_audio' = Audio(passed_voice')
             /\ audio' = backend_audio'
             /\ fpc' = "save"
             /\ UNCHANGED <<raised, cli_exit>>
        ELSE /\ FacadeFail(o)
             /\ UNCHANGED <<backend_audio, audio>>
    /\ UNCHANGED <<caller, gtts_available, arg_backend_name, arg_voice, no_play,
                   list_voices_flag, config, backend_name, facade_client,
                   output_file, playbacks>>
    /\ UNCHANGED <<batch_vars, gen_vars, client_vars>>

\* HelloTTS.save_audio, and hello_tts.main's decision to play.
FacadeSave ==
    /\ fpc = "save"
    /\ \E o \in {"ok", "error"} :
        IF o = "ok"
        THEN /\ output_file' = audio
             /\ IF caller = "hello_tts" /\ ~no_play /\ config.auto_play
                THEN fpc' = "play" /\ UNCHANGED cli_exit
                ELSE FacadeDone
             /\ UNCHANGED raised
        ELSE /\ FacadeFail(IF facade_client = "google" THEN "TTSError_google"
                           ELSE "Exception")
             /\ UNCHANGED output_file
    /\ UNCHANGED <<caller, gtts_available, arg_backend_name, arg_voice, no_play,
                   list_voices_flag, config, backend_name, facade_client,
                   passed_voice, backend_audio, audio, playbacks>>
    /\ UNCHANGED <<batch_vars, gen_vars, client_vars>>

\* hello_tts.main: AudioPlayer().play_file(output_file) under `except AudioError`.
CliPlay ==
    /\ fpc = "play"
    /\ \E o \in PlayOutcomes :
        /\ playbacks' = Append(playbacks, o)
        /\ IF o = "OtherError"
           THEN FacadeFail("Exception")
           ELSE FacadeDone /\ UNCHANGED raised
    /\ UNCHANGED <<caller, gtts_available, arg_backend_name, arg_voice, no_play,
                   list_voices_flag, config, backend_name, facade_client,
                   passed_voice, backend_audio, audio, output_file>>
    /\ UNCHANGED <<batch_vars, gen_vars, client_vars>>

\* ------------------------------------------------------ backend clients
\* Longest run of list_voices calls on one client.
MaxCalls == 3

\* Voice(name, locale): the fields the clients fill in.
VoiceOf(name, locale) == [name |-> name, locale |-> locale]

\* shared/tts_config.json: absent, unparsable, or one of three contents.
ConfigFiles == {"absent", "invalid", "empty", "v1", "v2"}

\* Voice.parse_voices_from_json_file: one Voice per entry with an edge_voice.
\* "empty" has entries but none with an edge_voice.
ParseVoices(f) ==
    CASE f = "v1" -> <<VoiceOf(JennyNeural, StrEnUS)>>
      [] f = "v2" -> <<VoiceOf(JennyNeural, StrEnUS),
                       VoiceOf(DeniseNeural, StrFrFR)>>
      [] OTHER -> << >>

\* The provider's answer to a listing: "down" (the call raises) or one of two
\* catalogues.
Providers == {"down", "p1", "p2"}

\* edge_tts.list_voices() turned into Voice entries.
EdgeCatalogue(p) ==
    IF p = "p1" THEN <<VoiceOf(AriaNeural, StrEnUS)>>
    ELSE <<VoiceOf(AriaNeural, StrEnUS), VoiceOf(XiaoxiaoNeural, StrZhCN)>>

\* gtts.lang.tts_langs(): the language codes, in the order of the dict.  The
\* older catalogue spells regional codes in lower case.
GoogleLangs(p) ==
    IF p = "p1" THEN <<StrEn, StrFr, StrZhCnLower>> ELSE <<StrEn, StrFr, StrZhCN>>

\* Google list_voices: one "{code}-Standard" Voice per language.
GoogleCatalogue(p) ==
    [n \in DOMAIN GoogleLangs(p) |->
        VoiceOf(GoogleLangs(p)[n] \o StandardSuffix, GoogleLangs(p)[n])]

InSeq(x, q) == \E n \in DOMAIN q : q[n] = x

\* TTSClient._extract_lang of the Google client.
ExtractLang(v, p) ==
    LET parts == SplitDash(v)
        lang_code == parts[1]
    IN  IF p = "down" THEN StrEn          \* tts_langs() raised: bare except
        ELSE IF InSeq(lang_code, GoogleLangs(p)) THEN lang_code
        ELSE IF Len(parts) >= 2
                /\ InSeq(Lower(parts[1] \o <<Dash>> \o parts[2]), GoogleLangs(p))
             THEN Lower(parts[1] \o <<Dash>> \o parts[2])
        ELSE StrEn

\* `lang` before synthesize_text has run.
NoLang == <<NoneVal>>

\* The voices a caller asks a client for; the last two name nothing either
\* provider knows.
NoVoiceArg == <<NoneVal>>
VoiceRequests ==
    {JennyNeural, StrFr, ZhStandardA, StrXxYY, NoVoiceArg}

\* The voices the Edge provider can synthesize.
EdgeVoices == {JennyNeural}

\* A cache test by truthiness: an empty list counts as no cache.
CacheMissFalsy(cache) == cache = NoVoices \/ cache = << >>

\* `if self._voices_cache is None`
CacheMiss(cache) == cache = NoVoices

\* The body of list_voices of either client.
ListVoicesCall ==
    /\ calls < MaxCalls
    /\ calls' = calls + 1
    /\ IF ~CacheMiss(voices_cache)
       THEN /\ result' = voices_cache
            /\ error' = NoneVal
            /\ UNCHANGED <<voices_cache, file_reads, provider_queries>>
       ELSE IF client_kind = "edge" /\ config_file \notin {"absent", "invalid"}
       THEN \* the config file exists and parses
            /\ file_reads' = file_reads + 1
            /\ voices_cache' = ParseVoices(config_file)
            /\ result' = voices_cache'
            /\ error' = NoneVal
            /\ UNCHANGED provider_queries
       ELSE \* Edge: no file, or a file that fails to parse (a warning); Google: always
            /\ file_reads' = IF client_kind = "edge" /\ config_file = "invalid"
                             THEN file_reads + 1 ELSE file_reads
            /\ provider_queries' = provider_queries + 1
            /\ IF provider = "down"
               THEN /\ error' = IF client_kind = "google" THEN "TTSError_google"
                                ELSE "Exception"
                    /\ UNCHANGED <<voices_cache, result>>
               ELSE /\ voices_cache' = IF client_kind = "google"
                                       THEN GoogleCatalogue(provider)
                                       ELSE EdgeCatalogue(provider)
                    /\ result' = voices_cache'
                    /\ error' = NoneVal
    /\ UNCHANGED <<client_kind, config_file, provider, requested, synth_audio,
                   provider_answer, save_data, disk, available_langs, lang>>
    /\ UNCHANGED <<batch_vars, gen_vars, facade_vars>>

\* list_voices of either client, called by the user of the client.
ListVoices ==
    /\ ListVoicesCall
    /\ last_op' = "list_voices"
    /\ UNCHANGED <<language, filtered>>

\* The language codes a caller filters by.
Languages == {StrEn, StrEnUpper, StrEnPadded, StrFr}

\* Voice.get_voices_by_language.
VoiceGetVoicesByLanguage(voices, l) ==
    LET normalized_language == Strip(Lower(l))
    IN  SelectSeq(voices, LAMBDA v : StartsWith(Lower(v.locale), normalized_language))

\* The comprehension of the Edge client's get_voices_by_language.
EdgeGetVoicesByLanguage(all_voices, l) ==
    SelectSeq(all_voices,
              LAMBDA v : StartsWith(v.locale, l) \/ SplitDash(v.locale)[1] = l)

\* get_voices_by_language of the Edge client: list_voices, then the filter.
GetVoicesByLanguage ==
    /\ client_kind = "edge"
    /\ ListVoicesCall
    /\ last_op' = "get_voices_by_language"
    /\ \E l \in Languages :
        /\ language' = l
        /\ filtered' = IF error' = NoneVal THEN EdgeGetVoicesByLanguage(result', l)
                       ELSE NoVoices

\* A caller applies Voice.get_voices_by_language to the list it last got.
FilterByLanguage ==
    /\ client_kind \in {"edge", "google"}
    /\ result # NoVoices
    /\ \E l \in Languages :
        /\ language' = l
        /\ filtered' = VoiceGetVoicesByLanguage(result, l)
    /\ last_op' = "Voice.get_voices_by_language"
    /\ error' = NoneVal
    /\ UNCHANGED <<client_kind, voices_cache, config_file, provider, calls, file_reads,
                   provider_queries, result, requested, synth_audio,
                   provider_answer, save_data, disk, available_langs, lang>>
    /\ UNCHANGED <<batch_vars, gen_vars, facade_vars>>

\* clear_voice_cache: the Edge client only has it.
ClearVoiceCache ==
    /\ client_kind = "edge"
    /\ voices_cache' = NoVoices
    /\ last_op' = "clear_voice_cache"
    /\ UNCHANGED <<client_kind, config_file, provider, calls, file_reads,
                   provider_queries, result, error, requested, synth_audio,
                   provider_answer, save_data, disk, language, filtered,
                   available_langs, lang>>
    /\ UNCHANGED <<batch_vars, gen_vars, facade_vars>>

\* What the provider does with a synthesis request.  Edge: audio chunks, a
\* stream without audio chunks, or an exception of edge_tts or the network (an
\* unknown voice never yields audio).  Google (gTTS for the resolved language):
\* audio, or an exception.
ProviderAnswers(k, v) ==
    IF k = "google" THEN {"audio", "raises"}
    ELSE IF v \in EdgeVoices THEN {"audio", "no_audio", "raises"}
    ELSE {"no_audio", "raises"}

\* synthesize_text of either client.
SynthesizeText ==
    /\ client_kind \in {"edge", "google"}
    /\ \E v \in VoiceRequests :
        /\ client_kind = "edge" => v # NoVoiceArg
        /\ \E a \in ProviderAnswers(client_kind, v) :
            /\ requested' = v
            /\ provider_answer' = a
            /\ IF client_kind = "google"
               THEN /\ available_langs' = IF provider = "down" THEN << >>
                                          ELSE GoogleLangs(provider)
                    /\ lang' = ExtractLang(IF v = NoVoiceArg THEN StrEn ELSE v,
                                           provider)
                    /\ IF a = "audio"
                       THEN /\ synth_audio' = Audio(lang')
                            /\ error' = NoneVal
                       ELSE /\ synth_audio' = NoAudio
                            /\ error' = "TTSError_google"
               ELSE /\ UNCHANGED <<available_langs, lang>>
                    /\ IF a = "audio"
                       THEN synth_audio' = Audio(v) /\ error' = NoneVal
                       ELSE /\ synth_audio' = NoAudio
                            /\ error' = IF a = "no_audio" THEN "TTSError_edge"
                                        ELSE "Exception"
    /\ last_op' = "synthesize_text"
    /\ UNCHANGED <<client_kind, voices_cache, config_file, provider, calls,
                   file_reads, provider_queries, result, save_data, disk, language,
                   filtered>>
    /\ UNCHANGED <<batch_vars, gen_vars, facade_vars>>

\* The path holds no file.
NoFile == <<NoneVal>>

\* What can happen to open(filename, 'wb') and write: both work, open fails
\* (no such directory, no permission), or the write fails after open has
\* truncated the file (disk full).
SaveOutcomes == {"ok", "open_fails", "write_fails"}

\* save_audio of either client, given bytes a synthesize_text returned.  Google
\* wraps every exception in its TTSError; Edge lets aiofiles' exception through.
ClientSaveAudio ==
    /\ client_kind \in {"edge", "google"}
    /\ synth_audio # NoAudio
    /\ save_data' = synth_audio
    /\ last_op' = "save_audio"
    /\ \E o \in SaveOutcomes :
        /\ disk' = CASE o = "ok" -> synth_audio
                      [] o = "open_fails" -> disk
                      [] o = "write_fails" -> << >>
        /\ error' = IF o = "ok" THEN NoneVal
                    ELSE IF client_kind = "google" THEN "TTSError_google"
                    ELSE "OSError"
    /\ UNCHANGED <<client_kind, voices_cache, config_file, provider, calls, file_reads,
                   provider_queries, result, requested, synth_audio, provider_answer,
                   language, filtered, available_langs, lang>>
    /\ UNCHANGED <<batch_vars, gen_vars, facade_vars>>

\* The world moves on: the config file or the provider's catalogue changes.
EnvChange ==
    /\ client_kind \in {"edge", "google"}
    /\ \E f \in ConfigFiles, p \in Providers :
        /\ <<f, p>> # <<config_file, provider>>
        /\ config_file' = f
        /\ provider' = p
    /\ UNCHANGED <<client_kind, voices_cache, calls, file_reads, provider_queries,
                   last_op, result, error, requested, synth_audio,
                   provider_answer, save_data, disk, language, filtered,
                   available_langs, lang>>
    /\ UNCHANGED <<batch_vars, gen_vars, facade_vars>>

\* ---------------------------------------------------------- specifications
NoEntry == [code |-> NoCode, alt_voice |-> NoneVal]

InitGenIdle ==
    /\ language_config = NoEntry
    /\ voice = NoneVal
    /\ alt_voice = NoneVal
    /\ tts_error = NoneVal
    /\ synth_calls = << >>
    /\ audio_data = NoAudio
    /\ used_voice = NoneVal
    /\ saved = << >>
    /\ play_calls = << >>
    /\ success = FALSE

\* HelloTTS is not in use.
InitFacadeIdle ==
    /\ caller = NoneVal
    /\ gtts_available = FALSE
    /\ arg_backend_name = NoneVal
    /\ arg_voice = NoneVal
    /\ no_play = FALSE
    /\ list_voices_flag = FALSE
    /\ config = DefaultConfig
    /\ fpc = "idle"
    /\ backend_name = NoneVal
    /\ facade_client = NoneVal
    /\ passed_voice = NoneVal
    /\ backend_audio = NoAudio
    /\ audio = NoAudio
    /\ raised = NoneVal
    /\ output_file = NoAudio
    /\ playbacks = << >>
    /\ cli_exit = -1

\* No backend client is used on its own.
InitClientIdle ==
    /\ client_kind = NoneVal
    /\ voices_cache = NoVoices
    /\ config_file = "absent"
    /\ provider = "down"
    /\ calls = 0
    /\ file_reads = 0
    /\ provider_queries = 0
    /\ last_op = NoneVal
    /\ result = NoVoices
    /\ error = NoneVal
    /\ requested = NoVoiceArg
    /\ synth_audio = NoAudio
    /\ provider_answer = NoneVal
    /\ save_data = NoAudio
    /\ disk = NoFile
    /\ language = NoLang
    /\ filtered = NoVoices
    /\ available_langs = << >>
    /\ lang = NoLang

\* A run of one of the two batch scripts.  main passes play_audio=False.
Init ==
    /\ runner \in Runners
    /\ env_backend \in BackendChoices
    /\ arg_backend \in BackendChoices
    /\ edge_importable \in BOOLEAN
    /\ config_kind \in ConfigKinds
    /\ legacy_kind \in IF runner = "multilingual_demo" /\ config_kind = "missing"
                       THEN ConfigKinds ELSE {"missing"}
    /\ languages_data \in IF OpenedKind(runner, config_kind, legacy_kind) = "ok"
                          THEN SeqsUpTo(Entries, MaxLangs)
                          ELSE {<< >>}
    /\ play_audio = FALSE
    /\ interrupted = FALSE
    /\ pc = "start"
    /\ backend = NoneVal
    /\ languages = << >>
    /\ client = NoneVal
    /\ i = 0
    /\ successful_count = 0
    /\ failed_count = 0
    /\ ret = -1
    /\ exit_status = -1
    /\ sleeps = 0
    /\ processed = << >>
    /\ InitGenIdle
    /\ InitFacadeIdle
    /\ InitClientIdle

Next ==
    \/ MainStart
    \/ CreateOutputDirectory
    \/ InitClient
    \/ LoopNext
    \/ GenEnter
    \/ SynthPrimary
    \/ SynthAlt
    \/ SaveAudio
    \/ MainCount
    \/ Sleep
    \/ MainPropagate
    \/ ProcessExit

Spec == Init /\ [][Next]_vars

\* The same run, during which the user may press Ctrl-C once.
NextInterruptible == Next \/ Interrupt

SpecInterruptible == Init /\ [][NextInterruptible]_vars

\* One call of generate_audio_for_language with the client and backend main
\* would pass, and either value of play_audio.
InitGen ==
    /\ runner \in Runners
    /\ env_backend \in BackendChoices
    /\ arg_backend \in BackendChoices
    /\ backend = ResolveBackend(env_backend, arg_backend)
    /\ client = BackendModule(backend)
    /\ edge_importable \in IF client = "edge" THEN {TRUE} ELSE BOOLEAN
    /\ config_kind = "ok"
    /\ legacy_kind = "missing"
    /\ language_config \in {e \in Entries :
                              runner = "hello_multilingual" => TruthyCode(e.code)}
    /\ languages_data = <<language_config>>
    /\ languages = <<language_config>>
    /\ play_audio \in BOOLEAN
    /\ interrupted = FALSE
    /\ pc = "gen_enter"
    /\ i = 0
    /\ successful_count = 0
    /\ failed_count = 0
    /\ ret = -1
    /\ exit_status = -1
    /\ sleeps = 0
    /\ processed = <<0>>
    /\ voice = NoneVal
    /\ alt_voice = NoneVal
    /\ tts_error = NoneVal
    /\ synth_calls = << >>
    /\ audio_data = NoAudio
    /\ used_voice = NoneVal
    /\ saved = << >>
    /\ play_calls = << >>
    /\ success = FALSE
    /\ InitFacadeIdle
    /\ InitClientIdle

NextGen ==
    \/ GenEnter
    \/ SynthPrimary
    \/ SynthAlt
    \/ SaveAudio
    \/ PlayAudio

SpecGen == InitGen /\ [][NextGen]_vars

\* No batch script runs.
InitBatchIdle ==
    /\ runner = NoneVal
    /\ env_backend = NoneVal
    /\ arg_backend = NoneVal
    /\ config_kind = "missing"
    /\ legacy_kind = "missing"
    /\ languages_data = << >>
    /\ play_audio = FALSE
    /\ interrupted = FALSE
    /\ pc = "idle"
    /\ backend = NoneVal
    /\ languages = << >>
    /\ client = NoneVal
    /\ i = 0
    /\ successful_count = 0
    /\ failed_count = 0
    /\ ret = -1
    /\ exit_status = -1
    /\ sleeps = 0
    /\ processed = << >>
    /\ InitGenIdle

\* The `backend` values hello_tts's argparse accepts, and a name no backend has.
CliBackends == {NoneVal, "edge", "google"}
LibraryBackends == CliBackends \cup {"azure"}

VoiceArgs == {NoneVal, "", "en-GB-SoniaNeural"}

\* One run of hello_tts.main, or one other caller that constructs HelloTTS,
\* synthesizes and saves.
InitFacade ==
    /\ InitBatchIdle
    /\ InitClientIdle
    /\ edge_importable \in BOOLEAN
    /\ gtts_available \in BOOLEAN
    /\ caller \in {"hello_tts", "library"}
    /\ arg_backend_name \in IF caller = "hello_tts" THEN CliBackends ELSE LibraryBackends
    /\ arg_voice \in VoiceArgs
    /\ no_play \in IF caller = "hello_tts" THEN BOOLEAN ELSE {TRUE}
    /\ list_voices_flag \in IF caller = "hello_tts" THEN BOOLEAN ELSE {FALSE}
    /\ config \in IF caller = "hello_tts" THEN {DefaultConfig} ELSE Configs
    /\ fpc = "construct"
    /\ backend_name = NoneVal
    /\ facade_client = NoneVal
    /\ passed_voice = NoneVal
    /\ backend_audio = NoAudio
    /\ audio = NoAudio
    /\ raised = NoneVal
    /\ output_file = NoAudio
    /\ playbacks = << >>
    /\ cli_exit = -1

NextFacade ==
    \/ Construct
    \/ FacadeListVoices
    \/ FacadeSynthesize
    \/ FacadeSave
    \/ CliPlay

SpecFacade == InitFacade /\ [][NextFacade]_vars

\* One client of either backend, freshly constructed, in some environment.
InitBackendClient ==
    /\ InitBatchIdle
    /\ edge_importable = TRUE
    /\ InitFacadeIdle
    /\ client_kind \in {"edge", "google"}
    /\ voices_cache = NoVoices
    /\ config_file \in ConfigFiles
    /\ provider \in Providers
    /\ calls = 0
    /\ file_reads = 0
    /\ provider_queries = 0
    /\ last_op = NoneVal
    /\ result = NoVoices
    /\ error = NoneVal
    /\ requested = NoVoiceArg
    /\ synth_audio = NoAudio
    /\ provider_answer = NoneVal
    /\ save_data = NoAudio
    /\ disk = NoFile
    /\ language = NoLang
    /\ filtered = NoVoices
    /\ available_langs = << >>
    /\ lang = NoLang

NextClient ==
    \/ ListVoices
    \/ ClearVoiceCache
    \/ SynthesizeText
    \/ EnvChange

SpecClient == InitBackendClient /\ [][NextClient]_vars

\* One client whose user lists its voices and filters them by language.
NextFilter ==
    \/ ListVoices
    \/ ClearVoiceCache
    \/ GetVoicesByLanguage
    \/ FilterByLanguage

SpecFilter == InitBackendClient /\ [][NextFilter]_vars

\* One client whose user synthesizes and saves what it got.
NextSave ==
    \/ SynthesizeText
    \/ ClientSaveAudio

SpecSave == InitBackendClient /\ [][NextSave]_vars

\* ------------------------------------------------------------ properties
\* alt_voice is absent or empty.
NoAltVoice == alt_voice \in {NoneVal, ""}

\* The synthesis attempt with the primary voice was made and failed.
PrimaryFailed == Len(synth_calls) >= 1 /\ synth_calls[1].outcome # "audio"

\* generate_audio_for_language is past its primary attempt.
AfterPrimary == pc \in {"synth_alt", "save", "play", "gen_return"}

NothingSavedFor(k) == \A n \in DOMAIN saved : saved[n].index # k

\* C1: when the primary attempt fails, for any reason, and alt_voice is
\* non-empty, exactly one further attempt is made, with alt_voice; if it succeeds
\* the call returns True with used_voice = alt_voice, if it fails the call returns
\* False, and there is no third attempt.
C1_AltVoiceRetriedOnce ==
    (pc = "gen_return" /\ PrimaryFailed /\ ~NoAltVoice) =>
        /\ Len(synth_calls) = 2
        /\ synth_calls[2].voice = alt_voice
        /\ synth_calls[2].outcome = "audio" => (success /\ used_voice = alt_voice)
        /\ synth_calls[2].outcome # "audio" => ~success

\* C2: when the primary attempt fails and alt_voice is absent or empty,
\* synthesize_text has been called exactly once for the language, nothing is
\* saved for it, the call returns False at once, and main adds exactly one to
\* failed_count (and nothing to successful_count).
C2_NoAltNoRetry ==
    /\ []((AfterPrimary /\ PrimaryFailed /\ NoAltVoice) =>
            /\ pc = "gen_return"
            /\ Len(synth_calls) = 1
            /\ NothingSavedFor(i)
            /\ ~success)
    /\ [][(pc = "gen_return" /\ PrimaryFailed /\ NoAltVoice) =>
            /\ failed_count' = failed_count + 1
            /\ successful_count' = successful_count]_vars

\* A language whose primary voice failed and whose alt_voice is the empty
\* string has been counted as failed.
C2_Witness ==
    /\ pc \in {"sleep", "loop"}
    /\ PrimaryFailed
    /\ alt_voice = ""
    /\ Len(synth_calls) = 1
    /\ failed_count = 1

\* The indices 0 .. n-1 in order.
InOrder(n) == [k \in 1..n |-> k - 1]

\* C3: once the loop has started over N entries nothing aborts the batch: when
\* the run is over every entry has been processed once, in order, and
\* successful_count + failed_count = N.
C3_BatchNeverAborts ==
    (client # NoneVal /\ pc \in {"returned", "raised", "exited"}) =>
        /\ processed = InOrder(Len(languages))
        /\ successful_count + failed_count = Len(languages)

LoadedNothing ==
    IF runner = "hello_multilingual"
    THEN LoadHM(config_kind, languages_data) = << >>
    ELSE LoadMD(OpenedKind(runner, config_kind, legacy_kind), languages_data) = << >>

\* main processed nothing and returned 1 without raising.
ReturnsOneUntouched ==
    /\ pc \in {"start", "returned", "exited"}
    /\ client = NoneVal
    /\ processed = << >>
    /\ synth_calls = << >>
    /\ saved = << >>
    /\ pc # "start" => ret = 1
    /\ pc = "exited" => exit_status = 1

\* C5, as claimed: with the shared config file (tts_config.json) missing or
\* malformed, or with an empty language list, main constructs no client,
\* processes no language, makes no synthesis call, writes no file, raises
\* nothing and returns 1.
C5_MissingConfigReturnsOne ==
    (config_kind \in {"missing", "malformed"} \/ (config_kind = "ok" /\ LoadedNothing))
        => ReturnsOneUntouched

\* C5, amended: the same of the file the loader opens, which in
\* multilingual_demo.py is the per-backend voices file when tts_config.json
\* does not exist.
C5_OpenedConfigReturnsOne ==
    (\/ OpenedKind(runner, config_kind, legacy_kind) \in {"missing", "malformed"}
     \/ (OpenedKind(runner, config_kind, legacy_kind) = "ok" /\ LoadedNothing))
        => ReturnsOneUntouched

\* multilingual_demo has exited after it fell back to a per-backend file that
\* is no JSON.
C5_Witness ==
    /\ runner = "multilingual_demo"
    /\ config_kind = "missing"
    /\ legacy_kind = "malformed"
    /\ pc = "exited"

\* C6: once the audio is saved and playback is attempted, no failure of the
\* playback makes generate_audio_for_language return False.
C6_PlaybackFailureIsWarning ==
    (pc = "gen_return" /\ play_calls # << >>) => success

\* The backend the claim expects for the given name and installed libraries.
WantedBackend ==
    IF arg_backend_name # NoneVal THEN arg_backend_name
    ELSE IF edge_importable THEN "edge"
    ELSE IF gtts_available THEN "google"
    ELSE NoneVal

\* C7: construction selects the named backend, or Edge then Google by
\* availability; it ends with a client of that backend and backend_name naming
\* it, and in every other case (no backend constructible, or the wanted one
\* unavailable, a missing provider library included) it fails with RuntimeError.
C7_BackendSelection ==
    (caller # NoneVal /\ fpc # "construct") =>
        IF \/ WantedBackend = "edge" /\ edge_importable
           \/ WantedBackend = "google" /\ gtts_available
        THEN facade_client = WantedBackend /\ backend_name = WantedBackend
        ELSE facade_client = NoneVal /\ raised = "RuntimeError"

\* C8: the backend client receives the caller's voice when one is given, else
\* config.default_voice on Edge and config.google_default_voice on Google, and
\* synthesize_text returns the bytes the client produced.
C8_VoicePassedToBackend ==
    (passed_voice # NoneVal) =>
        /\ passed_voice =
             IF arg_voice # NoneVal THEN arg_voice
             ELSE IF facade_client = "edge" THEN config.default_voice
             ELSE config.google_default_voice
        /\ audio # NoAudio => (audio = backend_audio /\ audio = Audio(passed_voice))

\* A Google facade with a non-default config synthesized without a voice.
C8_Witness ==
    /\ facade_client = "google"
    /\ arg_voice = NoneVal
    /\ config.google_default_voice = "zh"
    /\ passed_voice = "zh"
    /\ audio # NoAudio

\* C9: synthesize_text of either client returns audio or raises that client's
\* TTSError, and raises it whenever the provider yields no audio, raises, or
\* does not know the requested voice.
C9_OnlyTTSErrorEscapes ==
    (last_op = "synthesize_text") =>
        /\ error \in {NoneVal, TTSErrorOf(client_kind)}
        /\ error = NoneVal => synth_audio # NoAudio
        /\ (provider_answer \in {"no_audio", "raises"} \/ requested = StrXxYY)
               => error = TTSErrorOf(client_kind)

\* C10: a successful list_voices sets the cache to what it returns and a failed
\* one leaves it unset; with the cache set, list_voices returns it, keeps it and
\* neither parses the config file nor queries the provider; the cache, once set,
\* changes only by clear_voice_cache of the Edge client, which unsets it, and
\* list_voices on an unset cache loads again.
C10_VoiceListCached ==
    /\ [](/\ (last_op = "list_voices" /\ error = NoneVal) =>
                (voices_cache # NoVoices /\ result = voices_cache)
          /\ (last_op = "list_voices" /\ error # NoneVal) => voices_cache = NoVoices
          /\ last_op = "clear_voice_cache" => voices_cache = NoVoices)
    /\ [][calls' = calls + 1 =>
            IF voices_cache # NoVoices
            THEN /\ result' = voices_cache
                 /\ voices_cache' = voices_cache
                 /\ error' = NoneVal
                 /\ file_reads' = file_reads
                 /\ provider_queries' = provider_queries
            ELSE file_reads' + provider_queries' > file_reads + provider_queries]_vars
    /\ [][(voices_cache # NoVoices /\ voices_cache' # voices_cache) =>
            /\ voices_cache' = NoVoices
            /\ last_op' = "clear_voice_cache"
            /\ client_kind = "edge"]_vars

\* A Google client answered its third list_voices call from the cache it
\* filled from the older catalogue, while the provider serves the newer one.
C10_Witness ==
    /\ client_kind = "google"
    /\ calls = 3
    /\ last_op = "list_voices"
    /\ provider = "p2"
    /\ result = GoogleCatalogue("p1")
    /\ provider_queries = 1

\* The language the resolution rule names for voice v and the supported set
\* langs: the primary part if supported, else the composite of the first two
\* parts if there are two and it is supported, else 'en'.
RuleLang(v, langs) ==
    LET parts == SplitDash(v)
    IN  IF InSeq(parts[1], langs) THEN parts[1]
        ELSE IF Len(parts) >= 2 /\ InSeq(parts[1] \o <<Dash>> \o parts[2], langs)
             THEN parts[1] \o <<Dash>> \o parts[2]
        ELSE StrEn

\* C11: the Google client resolves a voice to its primary part if supported,
\* else to the primary-secondary composite if supported, else to 'en'; the
\* result is always a supported language or 'en'.
C11_LangResolvedByRule ==
    (last_op = "synthesize_text" /\ client_kind = "google") =>
        /\ lang = RuleLang(IF requested = NoVoiceArg THEN StrEn ELSE requested,
                           available_langs)
        /\ lang = StrEn \/ InSeq(lang, available_langs)

\* C12: every file written for a language is named
\* '{prefix}_python_{backendTag}_{unixTimestamp}.mp3', prefix the part of the
\* code before the first '-', backendTag 'gtts' for the Google backend and the
\* backend's name otherwise.
C12_FilenameFormat ==
    \A n \in DOMAIN saved :
        saved[n].filename =
            <<SplitDash(saved[n].code)[1], "_python_",
              IF client = "google" THEN "gtts" ELSE client,
              "_", saved[n].filename[5], ".mp3">>

\* C13, as claimed: main's backend is the --backend value when one is given,
\* else TTS_BACKEND when it is set, else 'edge'.
C13_FlagBeforeEnv ==
    (backend # NoneVal) =>
        backend = IF arg_backend # NoneVal THEN arg_backend
                  ELSE IF env_backend # NoneVal THEN env_backend
                  ELSE "edge"

\* C13, amended: main's backend is TTS_BACKEND when it is set, else the
\* --backend value when one is given, else 'edge', and the client main
\* constructs is that backend's.
C13_EnvBeforeFlag ==
    /\ (backend # NoneVal) =>
          backend = IF env_backend # NoneVal THEN env_backend
                    ELSE IF arg_backend # NoneVal THEN arg_backend
                    ELSE "edge"
    /\ (client # NoneVal) => (backend # NoneVal /\ client = backend)

\* A run with TTS_BACKEND=google and --backend edge has constructed the Google
\* client.
C13_Witness ==
    /\ env_backend = "google"
    /\ arg_backend = "edge"
    /\ backend = "google"
    /\ client = "google"
    /\ pc = "loop"

\* The entries of the opened file that have a language code, in their order.
EntriesWithCode == SelectSeq(languages_data, LAMBDA e : e.code \notin {NoCode, EmptyCode})

\* C14: an entry whose code is missing, null or empty is skipped: the list main
\* works through is the entries with a code in their order, only such entries
\* reach generate_audio_for_language, and the two counters count no others.
C14_EntriesWithoutCodeSkipped ==
    /\ (pc \notin {"start", "idle"}
          /\ OpenedKind(runner, config_kind, legacy_kind) = "ok")
            => languages = EntriesWithCode
    /\ \A k \in DOMAIN processed :
          /\ processed[k] + 1 \in DOMAIN languages
          /\ languages[processed[k] + 1].code \notin {NoCode, EmptyCode}
    /\ successful_count + failed_count <= Len(EntriesWithCode)

\* C15: a batch run over N >= 1 languages pauses exactly N-1 times: while it
\* runs it has paused once after each language it is through with except the
\* last, whatever that language's result, and when it is over it has paused
\* N-1 times.
C15_PausesBetweenLanguages ==
    /\ (client # NoneVal /\ pc = "loop") =>
          sleeps = IF i < Len(languages) THEN i ELSE Len(languages) - 1
    /\ (client # NoneVal /\ pc \in {"returned", "raised", "exited"}) =>
          sleeps = Len(languages) - 1

\* The last synthesis attempt for the current language returned audio.
LastSynthSucceeded ==
    /\ synth_calls # << >>
    /\ synth_calls[Len(synth_calls)].outcome = "audio"

\* C16: the batch is strictly sequential.  A language begins only when every
\* earlier one is through (counted, its file, if any, written); a synthesis
\* attempt is made only for the language begun last and before anything is
\* saved for it; a file is written only for that language, only after its last
\* synthesis attempt succeeded and before it is counted; playback comes only
\* after the file is written.
C16_StrictlySequential ==
    [][/\ (processed' # processed) =>
            /\ processed' = Append(processed, i)
            /\ successful_count + failed_count = Len(processed)
            /\ \A n \in DOMAIN saved : saved[n].index < i
       /\ (synth_calls' # synth_calls /\ synth_calls' # << >>) =>
            /\ Len(synth_calls') = Len(synth_calls) + 1
            /\ processed[Len(processed)] = i
            /\ NothingSavedFor(i)
       /\ (saved' # saved) =>
            /\ Len(saved') = Len(saved) + 1
            /\ SubSeq(saved', 1, Len(saved)) = saved
            /\ saved'[Len(saved')].index = i
            /\ processed[Len(processed)] = i
            /\ LastSynthSucceeded
            /\ saved'[Len(saved')].audio = Audio(synth_calls[Len(synth_calls)].voice)
            /\ NothingSavedFor(i)
            /\ successful_count + failed_count = i
       /\ (play_calls' # play_calls) => ~NothingSavedFor(i)]_vars

\* The second language's file has been written after the first language was
\* through with a retry.
C16_Witness ==
    /\ pc = "gen_return"
    /\ i = 1
    /\ Len(saved) = 2
    /\ saved[1].index = 0
    /\ saved[2].index = 1
    /\ saved[1].voice = "alt"
    /\ sleeps = 1

\* C17: a KeyboardInterrupt delivered at any point of a batch run aborts it at
\* once: main is left, no language is begun or counted afterwards, and the
\* process exits with status 1.
C17_InterruptAbortsBatch ==
    interrupted =>
        /\ pc \in {"interrupted", "exited"}
        /\ pc = "exited" => exit_status = 1

\* The voices of a list whose locale has l as a case-insensitive prefix, in
\* their order.
WithLanguagePrefix(voices, l) ==
    SelectSeq(voices, LAMBDA v : LET loc == Lower(v.locale)
                                     pre == Lower(l)
                                 IN  /\ Len(pre) <= Len(loc)
                                     /\ \A n \in DOMAIN pre : loc[n] = pre[n])

\* C18: either language filter returns exactly the voices of its input whose
\* locale has the language code as a case-insensitive prefix, in their order,
\* and leaves the client's list as it was.
C18_FilterByLanguagePrefix ==
    (last_op \in {"get_voices_by_language", "Voice.get_voices_by_language"}
        /\ error = NoneVal) =>
            /\ filtered = WithLanguagePrefix(result, language)
            /\ last_op = "get_voices_by_language" => voices_cache = result

\* C19: save_audio of either client leaves exactly the given bytes in the file,
\* whatever it held, and reports every failure as its backend's TTSError.
C19_SaveAudioWrapsErrors ==
    (last_op = "save_audio") =>
        /\ error = NoneVal => disk = save_data
        /\ error \in {NoneVal, TTSErrorOf(client_kind)}

\* C20: when a synthesis attempt has succeeded and save_audio then fails, the
\* call returns False at once: no synthesize_text call follows for the
\* language and playback is not attempted.
C20_SaveFailureNotRetried ==
    /\ []((pc = "gen_return" /\ LastSynthSucceeded /\ NothingSavedFor(i)) =>
            (~success /\ play_calls = << >>))
    /\ [][(pc = "save" /\ saved' = saved) =>
            /\ pc' = "gen_return"
            /\ ~success'
            /\ synth_calls' = synth_calls
            /\ play_calls' = play_calls]_vars

\* With playback requested, the alternative voice was synthesized after the
\* primary one failed, saving failed and the call has returned False.
C20_Witness ==
    /\ pc = "gen_return"
    /\ play_audio
    /\ Len(synth_calls) = 2
    /\ LastSynthSucceeded
    /\ saved = << >>
    /\ play_calls = << >>
    /\ ~success

\* C21: in multilingual_demo.py the backend generate_audio_for_language goes by
\* is the backend of the client main passes in: the voice key it reads, the
\* TTSError class its retry reacts to and the tag of the filename are that
\* backend's.
C21_GenUsesClientBackend ==
    (runner = "multilingual_demo" /\ client # NoneVal) =>
        /\ (tts_error # NoneVal) =>
              /\ voice = IF client = "google" THEN "google_voice" ELSE "edge_voice"
              /\ tts_error = IF client = "google" THEN "TTSError_google"
                             ELSE "TTSError_edge"
        /\ \A n \in DOMAIN saved : saved[n].filename[3] = client

====
